---------------------------- MODULE Spec2Model ----------------------------
(***************************************************************************)
(* PinPointer: the results store (file_manager_class.py), the review page  *)
(* parser (data_review_page.py) and the trial session of the edit page     *)
(* (image_editing_page.py).                                                *)
(*                                                                         *)
(* A Python str is a sequence of one-character strings; a results file is  *)
(* the sequence of its physical lines, each ending with "\n" (image names  *)
(* of the model hold no line break).                                       *)
(***************************************************************************)
EXTENDS Integers, Sequences, FiniteSets, TLC

(***************************************************************************)
(* constants.py                                                            *)
(***************************************************************************)
IMAGE_ID == <<"I", "D">>
IMAGE_NAME == <<"I", "m", "a", "g", "e", " ", "N", "a", "m", "e">>
RADIAL == <<"R", "a", "d", "i", "a", "l">>
X_AXIS == <<"X", "-", "A", "x", "i", "s">>
Y_AXIS == <<"Y", "-", "A", "x", "i", "s">>
HEADERS == <<IMAGE_ID, IMAGE_NAME, RADIAL, X_AXIS, Y_AXIS>>
RESULTS_DIR == <<"R", "e", "s", "u", "l", "t", "s">>
RESULTS_FILENAME ==
    <<"R", "e", "s", "u", "l", "t", "s", "_", "F", "i", "l", "e", ".", "t", "x", "t">>
OUT_OF_BOUNDS == 99999
NO_IMAGE == <<"N", "/", "A">>

(***************************************************************************)
(* Python str operations used by the store and the parser                  *)
(***************************************************************************)
Whitespace == {" ", "\t", "\n"}

MinOf(S) == CHOOSE x \in S : \A y \in S : x <= y
MaxOf(S) == CHOOSE x \in S : \A y \in S : y <= x

\* s[a:b] of Python for a, b >= 0 (1-based SubSeq of the 0-based half-open slice)
Slice(s, a, b) == SubSeq(s, a + 1, IF b > Len(s) THEN Len(s) ELSE b)

\* s[a:b] of Python, negative indices counted from the end
PySlice(s, a, b) ==
    LET n  == Len(s)
        na == IF a < 0 THEN (IF a + n < 0 THEN 0 ELSE a + n) ELSE a
        nb == IF b < 0 THEN (IF b + n < 0 THEN 0 ELSE b + n) ELSE b
    IN  Slice(s, na, nb)

\* the 0-based indices at which sub occurs in s
Occurrences(s, sub) ==
    {i \in 0..(Len(s) - Len(sub)) : \A j \in 1..Len(sub) : s[i + j] = sub[j]}

LowestOr(S, none) == IF S = {} THEN none ELSE MinOf(S)
HighestOr(S, none) == IF S = {} THEN none ELSE MaxOf(S)

\* str.find / str.rfind: the lowest / highest 0-based index of sub in s, else -1
Find(s, sub) == LowestOr(Occurrences(s, sub), -1)
RFind(s, sub) == HighestOr(Occurrences(s, sub), -1)

StartsWith(s, p) == Len(s) >= Len(p) /\ SubSeq(s, 1, Len(p)) = p

Contains(s, sub) == Occurrences(s, sub) # {}

\* str.split(sep): the pieces between the successive occurrences of sep
RECURSIVE SplitOn(_, _)
SplitAt(s, sep, i) ==
    IF i = -1 THEN <<s>>
    ELSE <<Slice(s, 0, i)>> \o SplitOn(Slice(s, i + Len(sep), Len(s)), sep)

SplitOn(s, sep) == SplitAt(s, sep, Find(s, sep))

\* str.lstrip / str.strip on whitespace
RECURSIVE LStrip(_)
LStrip(s) ==
    IF s # <<>> /\ Head(s) \in Whitespace THEN LStrip(Tail(s)) ELSE s

RECURSIVE RStrip(_)
RStrip(s) ==
    IF s # <<>> /\ s[Len(s)] \in Whitespace THEN RStrip(SubSeq(s, 1, Len(s) - 1)) ELSE s

Strip(s) == RStrip(LStrip(s))

\* the length of the leading run of non-whitespace characters
RECURSIVE TokenLen(_)
TokenLen(s) ==
    IF s = <<>> \/ Head(s) \in Whitespace THEN 0 ELSE 1 + TokenLen(Tail(s))

\* str.split(): the maximal runs of non-whitespace characters
RECURSIVE SplitWS(_)
SplitTokens(t, k) ==
    IF t = <<>> THEN <<>>
    ELSE <<SubSeq(t, 1, k)>> \o SplitWS(SubSeq(t, k + 1, Len(t)))

SplitWS(s) == SplitTokens(LStrip(s), TokenLen(LStrip(s)))

\* format(s, "<w"): left-justified, padded with spaces to width w, never cut
RECURSIVE Spaces(_)
Spaces(n) == IF n <= 0 THEN <<>> ELSE <<" ">> \o Spaces(n - 1)

LJust(s, w) == s \o Spaces(w - Len(s))

DigitChars == <<"0", "1", "2", "3", "4", "5", "6", "7", "8", "9">>
DigitSet == {DigitChars[i] : i \in 1..10}
DigitValue(c) == (CHOOSE i \in 1..10 : DigitChars[i] = c) - 1

\* str(n) for an int n >= 0
RECURSIVE NatStr(_)
NatStr(n) ==
    IF n < 10 THEN <<DigitChars[n + 1]>>
    ELSE NatStr(n \div 10) \o <<DigitChars[(n % 10) + 1]>>

\* the value of a non-empty run of decimal digits
RECURSIVE DigitsValue(_)
DigitsValue(ds) ==
    IF ds = <<>> THEN 0
    ELSE 10 * DigitsValue(SubSeq(ds, 1, Len(ds) - 1)) + DigitValue(ds[Len(ds)])

AllDigits(s) == \A i \in 1..Len(s) : s[i] \in DigitSet

RECURSIVE Pow10(_)
Pow10(k) == IF k = 0 THEN 1 ELSE 10 * Pow10(k - 1)

RECURSIVE Concat(_)
Concat(ss) == IF ss = <<>> THEN <<>> ELSE Head(ss) \o Concat(Tail(ss))


(***************************************************************************)
(* Python values.  A field of an Image is None, a str, an int or (after    *)
(* parsing) a float.  A float that the program handles is a signed square  *)
(* root of a rational, sign * sqrt(n2 / d2): pixel coordinates are         *)
(* integers, and distances and scaling factors are roots of rationals.     *)
(* The sign is kept for zero too (IEEE -0.0).  A parsed decimal literal is *)
(* the float num / 10^scale.                                               *)
(***************************************************************************)
PyNone == [t |-> "none"]
PyStr(s) == [t |-> "str", s |-> s]
PyInt(n) == [t |-> "int", v |-> n]
PyFloat(neg, num, scale) == [t |-> "float", neg |-> neg, num |-> num, scale |-> scale]
\* a point attribute holding the tuple (x, y); PointOf is the attribute as passed on
PyPoint(x, y) == [t |-> "tuple", v |-> <<x, y>>]
PointOf(p) == IF p = PyNone THEN PyNone ELSE p.v

RECURSIVE GCD(_, _)
GCD(a, b) == IF b = 0 THEN a ELSE GCD(b, a % b)

Real(neg, n2, d2) ==
    LET g == GCD(n2, d2)
    IN  [neg |-> neg, n2 |-> n2 \div g, d2 |-> d2 \div g]

\* an integer pixel quantity k as a float (k - k is +0.0)
FromInt(k) == Real(k < 0, k * k, 1)
RNeg(a) == [a EXCEPT !.neg = ~a.neg]
RMul(a, b) == Real(a.neg # b.neg, a.n2 * b.n2, a.d2 * b.d2)
RDiv(a, b) == Real(a.neg # b.neg, a.n2 * b.d2, a.d2 * b.n2)
RIsZero(a) == a.n2 = 0

\* floor(sqrt(n))
RECURSIVE Isqrt(_)
Isqrt(n) ==
    IF n < 2 THEN n
    ELSE LET r == 2 * Isqrt(n \div 4)
         IN  IF (r + 1) * (r + 1) <= n THEN r + 1 ELSE r

\* |a| in hundredths, rounded to nearest, an exact tie to even (format ".2f")
RoundHalfEven(a, m) ==
    LET tie == (m % 2 = 1) /\ (m * m * a.d2 = 40000 * a.n2)
        up  == (m + 1) \div 2
    IN  IF tie /\ up % 2 = 1 THEN up - 1 ELSE up

\* mutant: the hundredths cut off, not rounded
HundredthsTruncated(a) == Isqrt((10000 * a.n2) \div a.d2)

Hundredths(a) == RoundHalfEven(a, Isqrt((40000 * a.n2) \div a.d2))

\* the text of h hundredths with the sign
Fixed2(neg, h) ==
    (IF neg THEN <<"-">> ELSE <<>>) \o NatStr(h \div 100) \o <<".">>
    \o <<DigitChars[((h \div 10) % 10) + 1], DigitChars[(h % 10) + 1]>>

\* f'{a:.2f}'
Format2(a) == Fixed2(a.neg, Hundredths(a))

\* str(v), as an f-string formats a field
Str(v) ==
    CASE v.t = "none" -> <<"N", "o", "n", "e">>
      [] v.t = "str"  -> v.s
      [] v.t = "int"  -> NatStr(v.v)

\* float(tok) for the decimal literals the store writes: an optional sign, digits
\* with an optional fraction.  ok = FALSE is ValueError.  (Exponents, "inf", "nan"
\* and "_" do not occur in the tokens of this model.)
ParseDecimal(neg, ip, fp) ==
    IF AllDigits(ip) /\ AllDigits(fp) /\ Len(ip) + Len(fp) > 0
    THEN [ok |-> TRUE, val |-> PyFloat(neg, DigitsValue(ip \o fp), Len(fp))]
    ELSE [ok |-> FALSE, val |-> PyNone]

ParseUnsigned(neg, body, dot) ==
    ParseDecimal(neg,
                 IF dot = -1 THEN body ELSE Slice(body, 0, dot),
                 IF dot = -1 THEN <<>> ELSE Slice(body, dot + 1, Len(body)))

ParseFloat(tok) ==
    IF tok # <<>> /\ Head(tok) \in {"-", "+"}
    THEN ParseUnsigned(Head(tok) = "-", Tail(tok), Find(Tail(tok), <<".">>))
    ELSE ParseUnsigned(FALSE, tok, Find(tok, <<".">>))

\* Python == between a parsed float and an int n >= 0 (-0.0 == 0)
FloatEqInt(f, n) ==
    f.t = "float" /\ (f.num = 0 \/ ~f.neg) /\ f.num = n * Pow10(f.scale)

(***************************************************************************)
(* calculations.py                                                         *)
(***************************************************************************)
\* mutant: the scaling factor left out
calculate_errorUnscaled(point1, point2, scaling_factor) ==
    LET dx == point2[1] - point1[1]
        dy == point2[2] - point1[2]
    IN  Real(FALSE, dx * dx + dy * dy, 1)

\* mutant: the horizontal distance only
calculate_errorHorizontal(point1, point2, scaling_factor) ==
    LET dx == point2[1] - point1[1]
    IN  RMul(Real(FALSE, dx * dx, 1), scaling_factor)

calculate_error(point1, point2, scaling_factor) ==
    LET dx == point2[1] - point1[1]
        dy == point2[2] - point1[2]
    IN  RMul(Real(FALSE, dx * dx + dy * dy, 1), scaling_factor)

\* float("nan"), which a distance entry can be; every comparison with it is False
FNaN == [nan |-> TRUE]
IsNaN(a) == "nan" \in DOMAIN a
FDiv(a, b) == IF IsNaN(a) \/ IsNaN(b) THEN FNaN ELSE RDiv(a, b)
FLeZero(a) == ~IsNaN(a) /\ (a.n2 = 0 \/ a.neg)
FGtZero(a) == ~IsNaN(a) /\ a.n2 > 0 /\ ~a.neg

\* mutant: the degenerate case taken to be two points in one column
calculate_scaling_factorSameColumn(real_world_distance, point1, point2) ==
    IF point1[1] = point2[1]
    THEN [raised |-> "ValueError", value |-> PyNone]
    ELSE [raised |-> "",
          value |-> FDiv(real_world_distance, calculate_error(point1, point2, FromInt(1)))]

\* calculate_scaling_factor: raised = "TypeError" when a point is None (the
\* unpacking in calculate_error), "ValueError" when the two points coincide
calculate_scaling_factor(real_world_distance, point1, point2) ==
    IF point1 = PyNone \/ point2 = PyNone
    THEN [raised |-> "TypeError", value |-> PyNone]
    ELSE IF RIsZero(calculate_error(point1, point2, FromInt(1)))
    THEN [raised |-> "ValueError", value |-> PyNone]
    ELSE [raised |-> "",
          value |-> FDiv(real_world_distance, calculate_error(point1, point2, FromInt(1)))]

(***************************************************************************)
(* The file system: the Results directories that exist and, for each       *)
(* results file path, whether the file exists and its lines.               *)
(***************************************************************************)
PathJoin(a, b) == a \o <<"/">> \o b

NoFile == [exists |-> FALSE, lines |-> <<>>]
FileOf(lines) == [exists |-> TRUE, lines |-> lines]

(***************************************************************************)
(* file_manager_class.py                                                   *)
(***************************************************************************)
\* FileManager.__init__
FileManagerInit == [results_folder |-> PyNone, results_file |-> PyNone]

\* FileManager.set_results_folders
set_results_folders(folder_path) ==
    [results_folder |-> PyStr(PathJoin(folder_path, RESULTS_DIR)),
     results_file   |-> PyStr(PathJoin(PathJoin(folder_path, RESULTS_DIR), RESULTS_FILENAME))]

\* the header line: "=" and each column label left-justified to width 15
HeaderLine ==
    <<"=">> \o Concat([i \in 1..Len(HEADERS) |-> LJust(HEADERS[i], 15)]) \o <<"\n">>

SeparatorLine == <<"=", "=", "=", "\n">>

\* the two lines written when the file is created
Preamble == <<HeaderLine, SeparatorLine>>

\* the line written for one image
DataLine(image) ==
    IMAGE_ID \o <<" ">> \o LJust(NatStr(image.index), 10) \o <<" ">>
    \o IMAGE_NAME \o <<" ">> \o LJust(image.name, 10) \o <<" ">>
    \o RADIAL \o <<" ">> \o Str(image.radial) \o <<" ", "\t", "\t", " ">>
    \o X_AXIS \o <<" ">> \o Str(image.xaxis) \o <<"\t", " ">>
    \o Y_AXIS \o <<" ">> \o Str(image.yaxis) \o <<"\n">>

\* mutant: the data lines written in reverse list order
DataLinesReversed(images) ==
    [i \in 1..Len(images) |-> DataLine(images[Len(images) + 1 - i])]

\* the lines appended for the images, in list order
DataLines(images) == [i \in 1..Len(images) |-> DataLine(images[i])]

\* mutant: the file opened with "w" on every call
WrittenFileTruncating(file, images) == FileOf(Preamble \o DataLines(images))

\* mutant: the headers written on every call, existing file or not
WrittenFileHeaderAlways(file, images) ==
    FileOf(file.lines \o Preamble \o DataLines(images))

\* the file after open(.., "w") when it did not exist, then open(.., "a")
WrittenFile(file, images) ==
    FileOf((IF file.exists THEN file.lines ELSE Preamble) \o DataLines(images))

(***************************************************************************)
(* data_review_page.py                                                     *)
(***************************************************************************)
\* x.split(label)[1].split()[0]: the token after the first occurrence of label;
\* ok = FALSE is IndexError (no label, or no token before the next occurrence)
FirstToken(toks) ==
    IF Len(toks) >= 1 THEN [ok |-> TRUE, tok |-> toks[1]] ELSE [ok |-> FALSE, tok |-> <<>>]

SecondPart(parts) == IF Len(parts) >= 2 THEN SplitWS(parts[2]) ELSE <<>>

TokenAfter(line, label) == FirstToken(SecondPart(SplitOn(line, label)))

\* line[line.find("Image Name") + len("Image Name") : line.rfind("Radial")].strip()
NameOf(line) ==
    Strip(PySlice(line, Find(line, IMAGE_NAME) + Len(IMAGE_NAME), RFind(line, RADIAL)))

\* DataReviewPage.format_line: kind "none" is the implicit return None of a line
\* that does not start with "ID"; "IndexError" and "ValueError" are raised
Raise(e) == [kind |-> e, row |-> <<>>]

\* the row returned for the extracted tokens: the three float(..) conversions
FloatRow(id, name, fr, fx, fy) ==
    IF ~(fr.ok /\ fx.ok /\ fy.ok) THEN Raise("ValueError")
    ELSE [kind |-> "row", row |-> <<PyStr(id), PyStr(name), fr.val, fx.val, fy.val>>]

\* the body of format_line once the five extractions are made
\* mutant: one 'N/A' among the three tokens is enough for a row of strings
RowOfAnySentinel(line, id, radial, x_axis, y_axis) ==
    IF ~(id.ok /\ radial.ok /\ x_axis.ok /\ y_axis.ok) THEN Raise("IndexError")
    ELSE IF \E tok \in {radial.tok, x_axis.tok, y_axis.tok} : tok = NO_IMAGE
    THEN [kind |-> "row",
          row |-> <<PyStr(id.tok), PyStr(NameOf(line)), PyStr(radial.tok),
                    PyStr(x_axis.tok), PyStr(y_axis.tok)>>]
    ELSE FloatRow(id.tok, NameOf(line), ParseFloat(radial.tok), ParseFloat(x_axis.tok),
                  ParseFloat(y_axis.tok))

RowOf(line, id, radial, x_axis, y_axis) ==
    IF ~(id.ok /\ radial.ok /\ x_axis.ok /\ y_axis.ok) THEN Raise("IndexError")
    ELSE IF \A tok \in {radial.tok, x_axis.tok, y_axis.tok} : tok = NO_IMAGE
    THEN [kind |-> "row",
          row |-> <<PyStr(id.tok), PyStr(NameOf(line)), PyStr(radial.tok),
                    PyStr(x_axis.tok), PyStr(y_axis.tok)>>]
    ELSE FloatRow(id.tok, NameOf(line), ParseFloat(radial.tok), ParseFloat(x_axis.tok),
                  ParseFloat(y_axis.tok))

format_line(line) ==
    IF ~StartsWith(line, IMAGE_ID) THEN [kind |-> "none", row |-> <<>>]
    ELSE RowOf(line, TokenAfter(line, IMAGE_ID), TokenAfter(line, RADIAL),
               TokenAfter(line, X_AXIS), TokenAfter(line, Y_AXIS))

\* the lines kept by "if not line.strip().startswith('=')"
IsDataLine(line) == ~StartsWith(Strip(line), <<"=">>)

RECURSIVE SelectLines(_)
SelectLines(lines) ==
    IF lines = <<>> THEN <<>>
    ELSE (IF IsDataLine(Head(lines)) THEN <<Head(lines)>> ELSE <<>>)
         \o SelectLines(Tail(lines))

\* the list comprehension over the file: the exception of the first line that
\* raises, else the list of the results of format_line
FirstRaised(res, raising) ==
    IF raising # {} THEN [kind |-> res[MinOf(raising)].kind, data |-> <<>>]
    ELSE IF \E i \in 1..Len(res) : res[i].kind = "none"
    THEN [kind |-> "NoneRow", data |-> <<>>]
    ELSE [kind |-> "ok", data |-> [i \in 1..Len(res) |-> res[i].row]]

ListOf(res) ==
    FirstRaised(res, {i \in 1..Len(res) : res[i].kind \in {"IndexError", "ValueError"}})

FormatLines(kept) == ListOf([i \in 1..Len(kept) |-> format_line(kept[i])])

ParseLines(lines) == FormatLines(SelectLines(lines))

\* repr of a parsed float: the fraction without its trailing zeros, at least one digit
RECURSIVE StripZeros(_)
StripZeros(ds) ==
    IF Len(ds) > 1 /\ ds[Len(ds)] = "0" THEN StripZeros(SubSeq(ds, 1, Len(ds) - 1)) ELSE ds

RECURSIVE ZeroPad(_, _)
ZeroPad(ds, w) == IF Len(ds) >= w THEN ds ELSE ZeroPad(<<"0">> \o ds, w)

FloatRepr(f) ==
    (IF f.neg THEN <<"-">> ELSE <<>>) \o NatStr(f.num \div Pow10(f.scale)) \o <<".">>
    \o (IF f.scale = 0 THEN <<"0">>
        ELSE StripZeros(ZeroPad(NatStr(f.num % Pow10(f.scale)), f.scale)))

\* str(value) of a table cell
CellText(v) == IF v.t = "float" THEN FloatRepr(v) ELSE v.s

\* the table after setRowCount(len(data)) and setItem of every cell
TableOf(data) == [i \in 1..Len(data) |-> [j \in 1..5 |-> CellText(data[i][j])]]

InitialLabelText ==
    <<"D", "a", "t", "a", " ", "R", "e", "v", "i", "e", "w", " ", "P", "a", "g", "e">>

LoadedPrefix ==
    <<"L", "o", "a", "d", "e", "d", " ", "d", "a", "t", "a", " ", "f", "r", "o", "m",
      ":", " ">>

EncounteredPrefix ==
    <<"E", "n", "c", "o", "u", "n", "t", "e", "r", "e", "d", " ", "e", "r", "r", "o",
      "r", ":", " ", "'">>

MalformedSuffix ==
    <<"'", ".", " ", "R", "e", "s", "u", "l", "t", "s", " ", "f", "i", "l", "e", " ",
      "m", "a", "y", " ", "b", "e", " ", "m", "a", "l", "f", "o", "r", "m", "e", "d",
      ".">>

IndexErrorText ==
    <<"l", "i", "s", "t", " ", "i", "n", "d", "e", "x", " ", "o", "u", "t", " ", "o",
      "f", " ", "r", "a", "n", "g", "e">>

\* the first character is U+274C (cross mark), named by its code point
NotFoundPrefix ==
    <<"U+274C", " ", "E", "r", "r", "o", "r", ":", " ">>

NotFoundSuffix ==
    <<" ", "n", "o", "t", " ", "f", "o", "u", "n", "d", " ", "i", "n", " ", "t", "h",
      "e", " ", "s", "e", "l", "e", "c", "t", "e", "d", " ", "f", "o", "l", "d", "e",
      "r", ".">>

(***************************************************************************)
(* image_editing_page.py: Image and the values a trial records             *)
(***************************************************************************)
\* Image.__init__ (the path is the folder joined with the name; it is not kept)
Image(name, index) ==
    [name |-> name, index |-> index, radial |-> PyNone, xaxis |-> PyNone, yaxis |-> PyNone]

\* the remap of the raw deltas by calculate_and_display; any other code leaves them
\* mutant: the conventions of orientations 1 and 3 exchanged
AxisDeltaExchanged(axis_orientation, delta_x, delta_y) ==
    CASE axis_orientation = 0 -> <<RNeg(delta_x), delta_y>>
      [] axis_orientation = 1 -> <<delta_y, delta_x>>
      [] axis_orientation = 2 -> <<delta_x, RNeg(delta_y)>>
      [] axis_orientation = 3 -> <<RNeg(delta_y), RNeg(delta_x)>>
      [] OTHER -> <<delta_x, delta_y>>

\* mutant: orientation 3 loses delta_x, and orientation 0 does not flip
AxisDeltaCollapsing(axis_orientation, delta_x, delta_y) ==
    CASE axis_orientation = 0 -> <<delta_x, delta_y>>
      [] axis_orientation = 1 -> <<RNeg(delta_y), RNeg(delta_x)>>
      [] axis_orientation = 2 -> <<delta_x, RNeg(delta_y)>>
      [] axis_orientation = 3 -> <<delta_y, delta_y>>
      [] OTHER -> <<delta_x, delta_y>>

AxisDelta(axis_orientation, delta_x, delta_y) ==
    CASE axis_orientation = 0 -> <<RNeg(delta_x), delta_y>>
      [] axis_orientation = 1 -> <<RNeg(delta_y), RNeg(delta_x)>>
      [] axis_orientation = 2 -> <<delta_x, RNeg(delta_y)>>
      [] axis_orientation = 3 -> <<delta_y, delta_x>>
      [] OTHER -> <<delta_x, delta_y>>

\* the three fields calculate_and_display stores for a click at (x, y)
\* the three floats of calculate_and_display before they are formatted
Unrounded(target_point, x, y, scaling_factor, delta) ==
    [radial |-> calculate_error(target_point, <<x, y>>, scaling_factor),
     xaxis  |-> RMul(delta[1], scaling_factor),
     yaxis  |-> RMul(delta[2], scaling_factor)]

Formatted(img, raw) ==
    [img EXCEPT !.radial = PyStr(Format2(raw.radial)),
                !.xaxis  = PyStr(Format2(raw.xaxis)),
                !.yaxis  = PyStr(Format2(raw.yaxis))]

Measured(img, target_point, x, y, scaling_factor, axis_orientation) ==
    Formatted(img,
              Unrounded(target_point, x, y, scaling_factor,
                        AxisDelta(axis_orientation, FromInt(target_point[1] - x),
                                  FromInt(target_point[2] - y))))

\* the fields no_image stores
NoImageFields(img) ==
    [img EXCEPT !.radial = PyStr(NO_IMAGE), !.xaxis = PyStr(NO_IMAGE),
                !.yaxis = PyStr(NO_IMAGE)]

\* the fields invalid_trial stores
InvalidTrialFields(img) ==
    [img EXCEPT !.radial = PyInt(OUT_OF_BOUNDS), !.xaxis = PyInt(OUT_OF_BOUNDS),
                !.yaxis = PyInt(OUT_OF_BOUNDS)]

\* create_files_list: one Image per listed file, indexed by enumerate
\* mutant: the indices counted from 1
ImagesOfOneBased(names) == [i \in 1..Len(names) |-> Image(names[i], i)]

ImagesOf(names) == [i \in 1..Len(names) |-> Image(names[i], i - 1)]

(***************************************************************************)
(* State                                                                   *)
(***************************************************************************)
VARIABLES
    fs,               \* results file path -> [exists, lines]
    dirs,             \* the Results directories that exist
    file_manager,     \* EditPage.file_manager: results_folder, results_file
    images,           \* EditPage.images
    current_idx,      \* EditPage.current_idx
    num_images,       \* EditPage.num_images
    target_point,     \* EditPage.target_point
    target_button,    \* EditPage.target_button is shown and enabled
    axis_orientation, \* EditPage.axis_orientation
    scaling_factor,   \* EditPage.scaling_factor
    timers,           \* pending QTimer.singleShot(500, next_image) calls
    page,             \* "idle" before set_data, "editing", "ended" after end_editing
    data,             \* DataReviewPage.data
    data_table,       \* DataReviewPage.data_table: the rows of cell texts
    data_label,       \* DataReviewPage.data_label text
    cal_image_selected, \* CalibrationPage.image_viewer.image_selected
    point1,           \* CalibrationPage.point1
    point2,           \* CalibrationPage.point2
    cal_orientation,  \* CalibrationPage.axis_orientation
    graph_shown,      \* the orientation graphic and its two buttons are shown
    distance_shown,   \* the distance input and the Start button are shown
    reselect_enabled, \* the Reselect Points button is shown and enabled
    cal_timers,       \* the scaling factors of the pending advance_to_edit_page calls
    message,          \* the text of the QMessageBox.warning of the last handler
    calc,             \* the last call of a function of the measurement arithmetic
    escaped,          \* the exception that left the last handler ("" if none)
    written,          \* history: path -> the images passed to write_results, in order
    last              \* history: the last operation, its folder and its images

storeVars == <<fs, dirs, file_manager, written>>
editVars == <<images, current_idx, num_images, target_point, target_button, axis_orientation,
              scaling_factor, timers, page>>
reviewVars == <<data, data_table, data_label>>
calVars == <<cal_image_selected, point1, point2, cal_orientation, graph_shown,
             distance_shown, reselect_enabled, cal_timers, message, calc>>
vars == <<storeVars, editVars, reviewVars, calVars, escaped, last>>

(***************************************************************************)
(* Bounds and input sets                                                   *)
(***************************************************************************)
\* the most data lines a results file holds in the model
MaxDataLines == 2

FolderA == <<"/", "A">>
FolderB == <<"/", "B">>
Folders == {FolderA, FolderB}

\* the folder the trial sessions of the model work in
SessionFolders == {FolderA}

ResultsDirOf(folder) == PathJoin(folder, RESULTS_DIR)
ResultsFileOf(folder) == PathJoin(ResultsDirOf(folder), RESULTS_FILENAME)
ResultPaths == {ResultsFileOf(f) : f \in Folders}

\* the image files of a session folder as sorted(os.listdir(..)) gives them:
\* a name holding a label text, a plain one, one with a space
NamePool ==
    << <<"R", "a", "d", "i", "a", "l", ".", "p", "n", "g">>,
       <<"a", ".", "p", "n", "g">>,
       <<"m", "y", " ", "p", "i", "c", ".", "j", "p", "g">> >>

RECURSIVE SelectNames(_, _)
SelectNames(k, S) ==
    IF k > Len(NamePool) THEN <<>>
    ELSE (IF k \in S THEN <<NamePool[k]>> ELSE <<>>) \o SelectNames(k + 1, S)

\* create_files_list over every choice of the files present: non-empty, sorted
ImageLists ==
    {ImagesOf(SelectNames(1, S)) : S \in (SUBSET (1..Len(NamePool))) \ {{}}}

\* a scaling factor of 1/2 (real distance 50 over 100 pixels)
HalfScale == Real(FALSE, 2500, 10000)

\* the sample trial [target, click, orientation] of the store's batches: it
\* records a positive value, a negative value and a negative zero
SampleTrials ==
    {[target |-> <<100, 100>>, click |-> <<100, 150>>, o |-> 0]}

\* what a trial can have recorded for an image when the session ends
Recorded(img) ==
    {NoImageFields(img), InvalidTrialFields(img)}
    \cup {Measured(img, t.target, t.click[1], t.click[2], HalfScale, t.o) :
              t \in SampleTrials}

\* the image lists a finished session passes to write_results
Batches ==
    UNION {{b \in [1..Len(l) -> UNION {Recorded(l[i]) : i \in 1..Len(l)}] :
                \A i \in 1..Len(l) : b[i] \in Recorded(l[i])} : l \in ImageLists}

Op(op, folder, imgs) == [op |-> op, folder |-> folder, imgs |-> imgs]

(***************************************************************************)
(* Initial state: the pages as constructed, no results file on disk        *)
(***************************************************************************)
EditInit ==
    /\ file_manager = FileManagerInit
    /\ images = <<>>
    /\ current_idx = 0
    /\ num_images = 0
    /\ target_point = PyNone
    /\ target_button = FALSE
    /\ axis_orientation = PyNone
    /\ scaling_factor = PyNone
    /\ timers = 0
    /\ page = "idle"

\* CalibrationPage.__init__ and initUI
CalInit ==
    /\ cal_image_selected = FALSE
    /\ point1 = PyNone
    /\ point2 = PyNone
    /\ cal_orientation = 0
    /\ graph_shown = FALSE
    /\ distance_shown = FALSE
    /\ reselect_enabled = FALSE
    /\ cal_timers = <<>>
    /\ message = <<>>
    /\ calc = [op |-> "none"]

ReviewInit ==
    /\ data = PyNone
    /\ data_table = <<>>
    /\ data_label = InitialLabelText

Init ==
    /\ fs = [p \in ResultPaths |-> NoFile]
    /\ dirs = {}
    /\ written = [p \in ResultPaths |-> <<>>]
    /\ EditInit
    /\ ReviewInit
    /\ CalInit
    /\ escaped = ""
    /\ last = Op("init", <<>>, <<>>)

(***************************************************************************)
(* FileManager operations                                                  *)
(***************************************************************************)
\* FileManager.set_results_folders(folder_path)
SetResultsFolders ==
    \E folder \in SessionFolders :
        /\ file_manager' = set_results_folders(folder)
        /\ escaped' = ""
        /\ last' = Op("set_results_folders", folder, <<>>)
        /\ UNCHANGED <<fs, dirs, written, editVars, reviewVars, calVars>>

\* the effect of FileManager.write_results(imgs) on the disk
write_results(imgs) ==
    LET path == file_manager.results_file.s
    IN  /\ dirs' = dirs \cup {file_manager.results_folder.s}
        /\ fs' = [fs EXCEPT ![path] = WrittenFile(fs[path], imgs)]
        /\ written' = [written EXCEPT ![path] = written[path] \o imgs]

\* FileManager.write_results(images) for the images of a finished session
WriteResults ==
    \E imgs \in Batches :
        /\ file_manager.results_file.t = "str"
        /\ Len(written[file_manager.results_file.s]) + Len(imgs) <= MaxDataLines
        /\ write_results(imgs)
        /\ escaped' = ""
        /\ last' = Op("write_results", <<>>, imgs)
        /\ UNCHANGED <<file_manager, editVars, reviewVars, calVars>>

(***************************************************************************)
(* DataReviewPage operations                                               *)
(***************************************************************************)
DataFrame(rows) == [t |-> "DataFrame", rows |-> rows]

\* mutant: the error report without the text of the exception
DisplayWithoutErrorText(file_path, parsed) ==
    CASE parsed.kind = "ok" ->
           /\ data' = DataFrame(parsed.data)
           /\ data_table' = TableOf(parsed.data)
           /\ data_label' = LoadedPrefix \o file_path
           /\ escaped' = ""
      [] parsed.kind = "IndexError" ->
           /\ data_label' = EncounteredPrefix \o MalformedSuffix
           /\ escaped' = ""
           /\ UNCHANGED <<data, data_table>>
      [] OTHER ->
           /\ escaped' \in {"TypeError", "ValueError"}
           /\ UNCHANGED <<data, data_table, data_label>>

\* DataReviewPage.read_and_display_data(file_path) on an existing file.  A list
\* holding a None row makes the DataFrame constructor raise (TypeError or
\* ValueError, by the position of the None); only IndexError is caught.
Display(file_path, parsed) ==
    CASE parsed.kind = "ok" ->
           /\ data' = DataFrame(parsed.data)
           /\ data_table' = TableOf(parsed.data)
           /\ data_label' = LoadedPrefix \o file_path
           /\ escaped' = ""
      [] parsed.kind = "IndexError" ->
           /\ data_label' = EncounteredPrefix \o IndexErrorText \o MalformedSuffix
           /\ escaped' = ""
           /\ UNCHANGED <<data, data_table>>
      [] parsed.kind = "ValueError" ->
           /\ escaped' = "ValueError"
           /\ UNCHANGED <<data, data_table, data_label>>
      [] parsed.kind = "NoneRow" ->
           /\ escaped' \in {"TypeError", "ValueError"}
           /\ UNCHANGED <<data, data_table, data_label>>

read_and_display_data(file_path) == Display(file_path, ParseLines(fs[file_path].lines))

\* mutant: a missing file clears what was loaded
ReportNotFoundClearing ==
    /\ data_label' = NotFoundPrefix \o RESULTS_FILENAME \o NotFoundSuffix
    /\ escaped' = ""
    /\ data' = PyNone
    /\ data_table' = <<>>

\* the else branch of load_folder: the file is not there
ReportNotFound ==
    /\ data_label' = NotFoundPrefix \o RESULTS_FILENAME \o NotFoundSuffix
    /\ escaped' = ""
    /\ UNCHANGED <<data, data_table>>

\* DataReviewPage.load_folder(folder_path) for the folder the dialog returns
load_folder(folder_path) ==
    IF folder_path = <<>>
    THEN /\ escaped' = ""
         /\ UNCHANGED reviewVars
    ELSE IF fs[PathJoin(PathJoin(folder_path, RESULTS_DIR), RESULTS_FILENAME)].exists
    THEN read_and_display_data(PathJoin(PathJoin(folder_path, RESULTS_DIR), RESULTS_FILENAME))
    ELSE ReportNotFound

\* the Load Folder button: the dialog returns a folder, or "" on cancel
LoadFolder ==
    \E folder_path \in Folders \cup {<<>>} :
        /\ load_folder(folder_path)
        /\ last' = Op("load_folder", folder_path, <<>>)
        /\ UNCHANGED <<storeVars, editVars, calVars>>

(***************************************************************************)
(* The results store: sessions write, the review page loads                *)
(***************************************************************************)
Next ==
    \/ SetResultsFolders
    \/ WriteResults
    \/ LoadFolder

Spec == Init /\ [][Next]_vars

(***************************************************************************)
(* The review of files found on disk: a results file written by an earlier *)
(* run in folder A and a file from elsewhere (edited, cut, hand-made) in   *)
(* folder B.                                                               *)
(***************************************************************************)
\* a well-formed line
GoodLine ==
    <<"I", "D", " ", "0", " ", "I", "m", "a", "g", "e", " ", "N", "a", "m", "e", " ",
      "a", ".", "p", "n", "g", " ", "R", "a", "d", "i", "a", "l", " ", "1", ".", "5",
      "0", " ", "X", "-", "A", "x", "i", "s", " ", "-", "2", ".", "0", "0", " ", "Y",
      "-", "A", "x", "i", "s", " ", "3", ".", "2", "5", "\n">>

\* lines that lack one label token
NoYAxisLine ==
    <<"I", "D", " ", "1", " ", "I", "m", "a", "g", "e", " ", "N", "a", "m", "e", " ",
      "b", ".", "p", "n", "g", " ", "R", "a", "d", "i", "a", "l", " ", "1", ".", "5",
      "0", " ", "X", "-", "A", "x", "i", "s", " ", "-", "2", ".", "0", "0", "\n">>

NoXAxisLine ==
    <<"I", "D", " ", "1", " ", "I", "m", "a", "g", "e", " ", "N", "a", "m", "e", " ",
      "b", ".", "p", "n", "g", " ", "R", "a", "d", "i", "a", "l", " ", "1", ".", "5",
      "0", " ", "Y", "-", "A", "x", "i", "s", " ", "3", ".", "2", "5", "\n">>

NoRadialLine ==
    <<"I", "D", " ", "1", " ", "I", "m", "a", "g", "e", " ", "N", "a", "m", "e", " ",
      "b", ".", "p", "n", "g", " ", "X", "-", "A", "x", "i", "s", " ", "-", "2", ".",
      "0", "0", " ", "Y", "-", "A", "x", "i", "s", " ", "3", ".", "2", "5", "\n">>

NoImageNameLine ==
    <<"I", "D", " ", "1", " ", "R", "a", "d", "i", "a", "l", " ", "1", ".", "5", "0",
      " ", "X", "-", "A", "x", "i", "s", " ", "-", "2", ".", "0", "0", " ", "Y", "-",
      "A", "x", "i", "s", " ", "3", ".", "2", "5", "\n">>

NoIdLine ==
    <<"1", " ", "I", "m", "a", "g", "e", " ", "N", "a", "m", "e", " ", "b", ".", "p",
      "n", "g", " ", "R", "a", "d", "i", "a", "l", " ", "1", ".", "5", "0", " ", "X",
      "-", "A", "x", "i", "s", " ", "-", "2", ".", "0", "0", " ", "Y", "-", "A", "x",
      "i", "s", " ", "3", ".", "2", "5", "\n">>

\* a line whose measurement tokens are only partly numeric
PartialNumericLine ==
    <<"I", "D", " ", "1", " ", "I", "m", "a", "g", "e", " ", "N", "a", "m", "e", " ",
      "b", ".", "p", "n", "g", " ", "R", "a", "d", "i", "a", "l", " ", "N", "/", "A",
      " ", "X", "-", "A", "x", "i", "s", " ", "1", ".", "0", "0", " ", "Y", "-", "A",
      "x", "i", "s", " ", "2", ".", "0", "0", "\n">>

\* the 'no image' line of the format description, without a line end
NoImageSampleLine ==
    <<"I", "D", " ", "0", " ", "I", "m", "a", "g", "e", " ", "N", "a", "m", "e", " ",
      "a", ".", "p", "n", "g", " ", "R", "a", "d", "i", "a", "l", " ", "N", "/", "A",
      " ", "X", "-", "A", "x", "i", "s", " ", "N", "/", "A", " ", "Y", "-", "A", "x",
      "i", "s", " ", "N", "/", "A">>

MalformedLines ==
    {NoYAxisLine, NoXAxisLine, NoRadialLine, NoImageNameLine, NoIdLine, PartialNumericLine}

\* the files folder B may hold: none, a good one, the sample, a good line then a bad one
ExternalFiles ==
    {NoFile, FileOf(Preamble \o <<GoodLine>>), FileOf(<<NoImageSampleLine>>)}
    \cup {FileOf(Preamble \o <<GoodLine, bad>>) : bad \in MalformedLines}

\* what an earlier session may have left in folder A
EarlierBatches ==
    {<<>>} \cup {b \in Batches : Len(b) = 1 /\ b[1].name = NamePool[2]}

ReviewSpecInit ==
    /\ \E b \in EarlierBatches, ext \in ExternalFiles :
          /\ fs = [p \in ResultPaths |->
                     IF p = ResultsFileOf(FolderB) THEN ext
                     ELSE IF b = <<>> THEN NoFile ELSE WrittenFile(NoFile, b)]
          /\ dirs = (IF b = <<>> THEN {} ELSE {ResultsDirOf(FolderA)})
                    \cup (IF ext.exists THEN {ResultsDirOf(FolderB)} ELSE {})
          /\ written = [p \in ResultPaths |->
                          IF p = ResultsFileOf(FolderA) THEN b ELSE <<>>]
    /\ EditInit
    /\ ReviewInit
    /\ CalInit
    /\ escaped = ""
    /\ last = Op("init", <<>>, <<>>)

ReviewNext == LoadFolder

ReviewSpec == ReviewSpecInit /\ [][ReviewNext]_vars

(***************************************************************************)
(* The trial session: EditPage from set_data to the end of the image list  *)
(***************************************************************************)
\* the most QTimer.singleShot calls pending at once in the model
MaxTimers == 2

\* the scene positions the user clicks
ClickPoints == {<<100, 100>>, <<100, 150>>}

\* the orientation codes set_data is called with: two of the four conventions,
\* and a code outside them (set_data stores any int it is given)
SessionOrientations == {0, 1, 4}

\* create_files_list for the session folder holding none, one or both of two
\* images (the calibration image is taken out of the list)
SessionImageLists ==
    {<<>>, ImagesOf(<<NamePool[2]>>), ImagesOf(<<NamePool[3]>>),
     ImagesOf(<<NamePool[2], NamePool[3]>>)}

\* the IndexError check at the head of load_image (the image files stay on disk)
load_image(idx, imgs) == IF idx < 0 \/ idx >= Len(imgs) THEN "IndexError" ELSE ""

\* EditPage.end_editing: the images go to the results file, the options appear
end_editing(imgs) ==
    /\ write_results(imgs)
    /\ page' = "ended"
    /\ escaped' = ""

\* EditPage.next_image for the image list imgs
next_image(imgs) ==
    /\ current_idx' = current_idx + 1
    /\ IF current_idx + 1 < Len(imgs)
       THEN /\ escaped' = load_image(current_idx + 1, imgs)
            /\ UNCHANGED <<fs, dirs, written, page>>
       ELSE end_editing(imgs)

\* the results file has room for the lines next_image would write
EndFits ==
    \/ current_idx + 1 < Len(images)
    \/ Len(written[file_manager.results_file.s]) + Len(images) <= MaxDataLines

\* EditPage.set_data(scaling_factor, folder_path, image_path, axis_orientation)
\* with l the image list create_files_list makes; the page is shown
\* (nav_to_edit_page) when set_data returns
set_data(sf, folder_path, l, o) ==
    /\ scaling_factor' = sf
    /\ file_manager' = set_results_folders(folder_path)
    /\ axis_orientation' = o
    /\ images' = l
    /\ num_images' = Len(l)
    /\ escaped' = load_image(current_idx, l)
    /\ page' = IF load_image(current_idx, l) = "" THEN "editing" ELSE page

\* the session starts: the calibration page calls set_data
SetData ==
    \E folder \in SessionFolders, l \in SessionImageLists, o \in SessionOrientations :
        /\ page = "idle"
        /\ set_data(HalfScale, folder, l, o)
        /\ last' = Op("set_data", folder, <<>>)
        /\ UNCHANGED <<fs, dirs, written, current_idx, target_point, target_button,
                       timers, reviewVars, calVars>>

\* EditPage.calculate_and_display(x, y)
calculate_and_display(x, y) ==
    /\ axis_orientation' = IF axis_orientation \in 0..3 THEN axis_orientation ELSE 0
    /\ IF current_idx >= Len(images)
       THEN /\ escaped' = "IndexError"
            /\ UNCHANGED <<images, timers>>
       ELSE /\ images' = [images EXCEPT ![current_idx + 1] =
                             Measured(@, PointOf(target_point), x, y, scaling_factor,
                                      axis_orientation)]
            /\ timers' = timers + 1
            /\ escaped' = ""
    /\ UNCHANGED <<target_point, target_button>>

\* EditPage.handle_point_clicked(x, y)
handle_point_clicked(x, y) ==
    IF target_point = PyNone
    THEN /\ target_point' = PyPoint(x, y)
         /\ target_button' = TRUE
         /\ escaped' = ""
         /\ UNCHANGED <<images, timers, axis_orientation>>
    ELSE calculate_and_display(x, y)

\* a click on the image viewer, which stays on the page after the end
ImageClicked ==
    \E pt \in ClickPoints :
        /\ page \in {"editing", "ended"}
        /\ timers < MaxTimers
        /\ handle_point_clicked(pt[1], pt[2])
        /\ last' = Op("handle_point_clicked", <<>>, <<>>)
        /\ UNCHANGED <<storeVars, current_idx, num_images, scaling_factor, page,
                       reviewVars, calVars>>

\* a pending QTimer.singleShot(500, ..) of calculate_and_display fires
TimerFires ==
    /\ timers > 0
    /\ EndFits
    /\ timers' = timers - 1
    /\ next_image(images)
    /\ last' = Op("timer", <<>>, <<>>)
    /\ UNCHANGED <<file_manager, images, num_images, target_point, target_button,
                   axis_orientation, scaling_factor, reviewVars, calVars>>

\* a press of "No Trial" or "Out of bounds": the fields of the current image are
\* set, which gives the list imgs, then next_image
SkipWith(imgs) ==
    /\ page \in {"editing", "ended"}
    /\ IF current_idx >= Len(images)
       THEN /\ escaped' = "IndexError"
            /\ UNCHANGED <<fs, dirs, written, images, current_idx, page>>
       ELSE /\ EndFits
            /\ images' = imgs
            /\ next_image(imgs)
    /\ UNCHANGED <<file_manager, num_images, target_point, target_button,
                   axis_orientation, scaling_factor, timers, reviewVars, calVars>>

\* EditPage.no_image
no_image ==
    /\ SkipWith([images EXCEPT ![current_idx + 1] = NoImageFields(@)])
    /\ last' = Op("no_image", <<>>, <<>>)

\* EditPage.invalid_trial
invalid_trial ==
    /\ SkipWith([images EXCEPT ![current_idx + 1] = InvalidTrialFields(@)])
    /\ last' = Op("invalid_trial", <<>>, <<>>)

\* EditPage.previous_image
previous_image ==
    /\ page \in {"editing", "ended"}
    /\ IF current_idx > 0
       THEN /\ current_idx' = current_idx - 1
            /\ escaped' = load_image(current_idx - 1, images)
       ELSE /\ escaped' = ""
            /\ UNCHANGED current_idx
    /\ last' = Op("previous_image", <<>>, <<>>)
    /\ UNCHANGED <<storeVars, images, num_images, target_point, target_button,
                   axis_orientation, scaling_factor, timers, page, reviewVars, calVars>>

\* EditPage.reselect_target, once the button is shown
reselect_target ==
    /\ page \in {"editing", "ended"}
    /\ target_button
    /\ target_point' = PyNone
    /\ escaped' = load_image(current_idx, images)
    /\ last' = Op("reselect_target", <<>>, <<>>)
    /\ UNCHANGED <<storeVars, images, current_idx, num_images, target_button,
                   axis_orientation, scaling_factor, timers, page, reviewVars, calVars>>

SessionNext ==
    \/ SetData
    \/ ImageClicked
    \/ TimerFires
    \/ no_image
    \/ invalid_trial
    \/ previous_image
    \/ reselect_target

SessionSpec == Init /\ [][SessionNext]_vars

(***************************************************************************)
(* The measurement arithmetic applied to inputs drawn from bounded sets    *)
(***************************************************************************)
\* the largest pixel delta component given to the orientation remap
MaxDelta == 2

\* pixel positions: two in a column, two in a row, one 3-4-5 apart, one oblique
CalcPoints == {<<100, 100>>, <<100, 200>>, <<150, 100>>, <<103, 104>>, <<101, 102>>}

\* real-world distances: 50, 10, 1/4, -5
CalcDistances == {FromInt(50), FromInt(10), Real(FALSE, 1, 16), FromInt(-5)}

\* scaling factors: 1/2, 1, 2, 1/3
CalcScales == {HalfScale, FromInt(1), FromInt(2), Real(FALSE, 1, 9)}

\* the orientation codes given to calculate_and_display: the four valid ones, and
\* codes outside them
CalcOrientations == {0, 1, 2, 3, 4, -1}

\* a behaviour applies one function to one choice of inputs; nothing else changes
CalcUnchanged ==
    /\ calc.op = "none"
    /\ UNCHANGED <<storeVars, editVars, reviewVars, cal_image_selected, point1, point2,
                   cal_orientation, graph_shown, distance_shown, reselect_enabled,
                   cal_timers, message, escaped, last>>

\* calculate_scaling_factor(d, a, b)
CalcScalingFactor ==
    \E d \in CalcDistances, a \in CalcPoints, b \in CalcPoints :
        /\ calc' = [op |-> "calculate_scaling_factor", d |-> d, a |-> a, b |-> b,
                    out |-> calculate_scaling_factor(d, a, b)]
        /\ CalcUnchanged

\* calculate_error(a, b, s) and calculate_error(a, b)
CalcError ==
    \E a \in CalcPoints, b \in CalcPoints, sf \in CalcScales :
        /\ calc' = [op |-> "calculate_error", a |-> a, b |-> b, s |-> sf,
                    out |-> calculate_error(a, b, sf),
                    unit |-> calculate_error(a, b, FromInt(1))]
        /\ CalcUnchanged

\* the remap of a delta, once and twice
Remapped(o, dx, dy, once) ==
    [op |-> "remap", o |-> o, dx |-> dx, dy |-> dy, out |-> once,
     twice |-> AxisDelta(o, once[1], once[2])]

CalcAxisDelta ==
    \E o \in CalcOrientations, dx \in -MaxDelta..MaxDelta, dy \in -MaxDelta..MaxDelta :
        /\ calc' = Remapped(o, dx, dy, AxisDelta(o, FromInt(dx), FromInt(dy)))
        /\ CalcUnchanged

\* the fields calculate_and_display records for target t and implement p
CalcTrial ==
    \E t \in CalcPoints, p \in CalcPoints, sf \in CalcScales, o \in CalcOrientations :
        /\ calc' = [op |-> "trial", t |-> t, p |-> p, s |-> sf, o |-> o,
                    out |-> Measured(Image(NamePool[2], 0), t, p[1], p[2], sf, o),
                    raw |-> Unrounded(t, p[1], p[2], sf,
                                      AxisDelta(o, FromInt(t[1] - p[1]),
                                                FromInt(t[2] - p[2])))]
        /\ CalcUnchanged

CalcNext ==
    \/ CalcScalingFactor
    \/ CalcError
    \/ CalcAxisDelta
    \/ CalcTrial

CalcSpec == Init /\ [][CalcNext]_vars

(***************************************************************************)
(* calibration_page.py: two points, the orientation, the distance, and the *)
(* delayed hand-over to the edit page                                      *)
(***************************************************************************)
\* the most pending advance_to_edit_page timers in the model
MaxCalTimers == 2

\* len(self.axis_image_files): the graphics of the four orientations
NumAxisImages == 4

\* the scene positions clicked on the calibration image
CalClickPoints == {<<100, 100>>, <<100, 200>>}

\* what the user types in the distance field
DistanceTexts ==
    { <<"5", "0">>, <<"0">>, <<"-", "5">>, <<"a", "b", "c">>, <<"n", "a", "n">> }

\* float(text) of the distance field: "nan" is a float; a decimal literal is its
\* value; ok = FALSE is ValueError
DecimalOf(parsed) ==
    IF ~parsed.ok THEN [ok |-> FALSE, val |-> PyNone]
    ELSE [ok |-> TRUE,
          val |-> Real(parsed.val.neg, parsed.val.num * parsed.val.num,
                       Pow10(parsed.val.scale) * Pow10(parsed.val.scale))]

ParseDistance(text) ==
    IF Strip(text) = <<"n", "a", "n">> THEN [ok |-> TRUE, val |-> FNaN]
    ELSE DecimalOf(ParseFloat(Strip(text)))

NotANumberWarning ==
    <<"C", "o", "u", "l", "d", " ", "n", "o", "t", " ", "i", "n", "t", "e", "r", "p",
      "r", "e", "t", " ", "d", "i", "s", "t", "a", "n", "c", "e", " ", "a", "s", " ",
      "a", " ", "n", "u", "m", "b", "e", "r", ".">>

NotPositiveWarning ==
    <<"D", "i", "s", "t", "a", "n", "c", "e", " ", "m", "u", "s", "t", " ", "b", "e",
      " ", "a", " ", "p", "o", "s", "i", "t", "i", "v", "e", " ", "n", "u", "m", "b",
      "e", "r", ".">>

SameSpotWarning ==
    <<"Y", "o", "u", " ", "c", "a", "n", "n", "o", "t", " ", "s", "e", "l", "e", "c",
      "t", " ", "t", "h", "e", " ", "s", "a", "m", "e", " ", "s", "p", "o", "t", " ",
      "o", "r", " ", "t", "o", "o", " ", "c", "l", "o", "s", "e", " ", "t", "o", " ",
      "i", "t", ".">>

Abs(k) == IF k < 0 THEN -k ELSE k

CalOp(op, pt) == [op |-> op, folder |-> <<>>, imgs |-> <<>>, pt |-> pt]

\* CalibrationPage.reselect_points: the distance field and Start stay as they are
reselect_points ==
    /\ graph_shown' = FALSE
    /\ point1' = PyNone
    /\ point2' = PyNone
    /\ reselect_enabled' = FALSE
    /\ UNCHANGED distance_shown

\* mutant: a second click on the first point is taken as the second point
cal_handle_point_clickedAnySecond(x, y) ==
    IF point1 = PyNone
    THEN /\ point1' = PyPoint(x, y)
         /\ message' = <<>>
         /\ UNCHANGED <<point2, graph_shown, distance_shown, reselect_enabled>>
    ELSE /\ point2' = PyPoint(x, y)
         /\ reselect_enabled' = TRUE
         /\ graph_shown' = TRUE
         /\ distance_shown' = TRUE
         /\ message' = <<>>
         /\ UNCHANGED point1

\* CalibrationPage.handle_point_clicked(x, y)
cal_handle_point_clicked(x, y) ==
    IF point1 = PyNone
    THEN /\ point1' = PyPoint(x, y)
         /\ message' = <<>>
         /\ UNCHANGED <<point2, graph_shown, distance_shown, reselect_enabled>>
    ELSE IF point2 = PyNone
    THEN IF Abs(point1.v[1] - x) < 1 /\ Abs(point1.v[2] - y) < 1
         THEN /\ message' = SameSpotWarning
              /\ reselect_points
         ELSE /\ point2' = PyPoint(x, y)
              /\ reselect_enabled' = TRUE
              /\ graph_shown' = TRUE
              /\ distance_shown' = TRUE
              /\ message' = <<>>
              /\ UNCHANGED point1
    ELSE /\ message' = <<>>
         /\ UNCHANGED <<point1, point2, graph_shown, distance_shown, reselect_enabled>>

\* a click on the calibration image, once an image is loaded in the viewer
CalImageClicked ==
    \E pt \in CalClickPoints :
        /\ page = "idle"
        /\ cal_image_selected
        /\ cal_handle_point_clicked(pt[1], pt[2])
        /\ escaped' = ""
        /\ last' = CalOp("cal_handle_point_clicked", pt)
        /\ UNCHANGED <<storeVars, editVars, reviewVars, cal_image_selected,
                       cal_orientation, cal_timers, calc>>

\* the Reselect Points button
ReselectPoints ==
    /\ page = "idle"
    /\ reselect_enabled
    /\ reselect_points
    /\ message' = <<>>
    /\ escaped' = ""
    /\ last' = CalOp("reselect_points", <<>>)
    /\ UNCHANGED <<storeVars, editVars, reviewVars, cal_image_selected,
                   cal_orientation, cal_timers, calc>>

\* CalibrationPage.select_cal_image (from select_folder or Reselect Image): the
\* points are cleared, then the dialog returns an image or is cancelled
SelectCalImage ==
    \E chosen \in BOOLEAN :
        /\ page = "idle"
        /\ point1' = PyNone
        /\ point2' = PyNone
        /\ cal_image_selected' = (cal_image_selected \/ chosen)
        /\ message' = <<>>
        /\ escaped' = ""
        /\ last' = CalOp("select_cal_image", <<>>)
        /\ UNCHANGED <<storeVars, editVars, reviewVars, cal_orientation, graph_shown,
                       distance_shown, reselect_enabled, cal_timers, calc>>

\* CalibrationPage.next_image
cal_next_image(o) == (o + 1) % NumAxisImages

\* mutant: Previous does not wrap around
cal_previous_imageUnwrapped(o) == o - 1

\* CalibrationPage.previous_image
cal_previous_image(o) == (o - 1) % NumAxisImages

\* a press of one of the two orientation buttons
SpinOrientation ==
    \E step \in {1, -1} :
        /\ page = "idle"
        /\ graph_shown
        /\ cal_orientation' = IF step = 1 THEN cal_next_image(cal_orientation)
                                          ELSE cal_previous_image(cal_orientation)
        /\ message' = <<>>
        /\ escaped' = ""
        /\ last' = CalOp(IF step = 1 THEN "cal_next_image" ELSE "cal_previous_image", <<>>)
        /\ UNCHANGED <<storeVars, editVars, reviewVars, cal_image_selected, point1,
                       point2, graph_shown, distance_shown, reselect_enabled,
                       cal_timers, calc>>

\* the else branch of load_edit_page for the scaling factor computed
StartTimer(sf) ==
    IF sf.raised # ""
    THEN /\ escaped' = sf.raised
         /\ UNCHANGED cal_timers
    ELSE /\ escaped' = ""
         /\ cal_timers' = Append(cal_timers, sf.value)

\* CalibrationPage.load_edit_page for the parsed text of the distance field
load_edit_page(distance) ==
    IF ~distance.ok
    THEN /\ message' = NotANumberWarning
         /\ escaped' = ""
         /\ UNCHANGED cal_timers
    ELSE IF FLeZero(distance.val)
    THEN /\ message' = NotPositiveWarning
         /\ escaped' = ""
         /\ UNCHANGED cal_timers
    ELSE /\ message' = <<>>
         /\ StartTimer(calculate_scaling_factor(distance.val, PointOf(point1), PointOf(point2)))

\* Enter in the distance field or the Start button, while they are shown
LoadEditPage ==
    \E text \in DistanceTexts :
        /\ page = "idle"
        /\ distance_shown
        /\ Len(cal_timers) < MaxCalTimers
        /\ load_edit_page(ParseDistance(text))
        /\ last' = [CalOp("load_edit_page", <<>>) EXCEPT !.imgs = <<text>>]
        /\ UNCHANGED <<storeVars, editVars, reviewVars, cal_image_selected, point1,
                       point2, cal_orientation, graph_shown, distance_shown,
                       reselect_enabled, calc>>

\* the QTimer.singleShot(500, ..) of load_edit_page fires: advance_to_edit_page
AdvanceToEditPage ==
    \E l \in SessionImageLists :
        /\ cal_timers # <<>>
        /\ set_data(Head(cal_timers), FolderA, l, cal_orientation)
        /\ cal_timers' = Tail(cal_timers)
        /\ message' = <<>>
        /\ last' = CalOp("advance_to_edit_page", <<>>)
        /\ UNCHANGED <<fs, dirs, written, current_idx, target_point, target_button,
                       timers, reviewVars, cal_image_selected, point1, point2,
                       cal_orientation, graph_shown, distance_shown, reselect_enabled,
                       calc>>

CalibrationNext ==
    \/ SelectCalImage
    \/ CalImageClicked
    \/ ReselectPoints
    \/ SpinOrientation
    \/ LoadEditPage
    \/ AdvanceToEditPage

CalibrationSpec == Init /\ [][CalibrationNext]_vars

(***************************************************************************)
(* Properties                                                              *)
(***************************************************************************)
IsPrefix(a, b) == Len(a) <= Len(b) /\ SubSeq(b, 1, Len(a)) = a

\* every image of the list has its three fields set
AllRecorded(imgs) ==
    \A i \in 1..Len(imgs) :
        imgs[i].radial.t # "none" /\ imgs[i].xaxis.t # "none" /\ imgs[i].yaxis.t # "none"

\* a parsed cell equals the value the field was written from: the marker string
\* itself, the int 99999, or the float whose 2-decimal text is the field's text
CellMatches(field, cell) ==
    CASE field.t = "int" -> FloatEqInt(cell, field.v)
      [] field.t = "str" /\ field.s = NO_IMAGE -> cell = PyStr(NO_IMAGE)
      [] field.t = "str" /\ field.s # NO_IMAGE ->
             cell.t = "float" /\ cell.scale = 2 /\ Fixed2(cell.neg, cell.num) = field.s
      [] OTHER -> FALSE

RowMatches(img, row) ==
    /\ row[1] = PyStr(NatStr(img.index))
    /\ row[2] = PyStr(img.name)
    /\ CellMatches(img.radial, row[3])
    /\ CellMatches(img.xaxis, row[4])
    /\ CellMatches(img.yaxis, row[5])

\* the review page has just loaded the results file of a session folder
LoadedFrom(f) ==
    last.op = "load_folder" /\ last.folder = f /\ fs[ResultsFileOf(f)].exists

\* C1: writing batches of recorded trials and then reading the file back yields one
\* row per trial, in the order written, whose id, name, radial, x-axis and y-axis
\* equal the written values.
C1_RoundTrip ==
    \A f \in Folders :
        (LoadedFrom(f) /\ AllRecorded(written[ResultsFileOf(f)]))
        => /\ escaped = ""
           /\ data.t = "DataFrame"
           /\ Len(data.rows) = Len(written[ResultsFileOf(f)])
           /\ \A i \in 1..Len(data.rows) :
                  RowMatches(written[ResultsFileOf(f)][i], data.rows[i])

\* C2: a step never truncates or rewrites an existing results file (its lines
\* stay a prefix of the new lines), and a load of the review page leaves every
\* file as it is.
C2_AppendOnly ==
    [][/\ \A p \in ResultPaths :
            fs[p].exists => (fs'[p].exists /\ IsPrefix(fs[p].lines, fs'[p].lines))
       /\ (last'.op = "load_folder" => fs' = fs)]_vars

\* a second write has appended to a file that held data, and a load followed
C2_Witness ==
    \E p \in ResultPaths :
        /\ fs[p].exists
        /\ Len(written[p]) = 2
        /\ Len(fs[p].lines) = 4
        /\ last.op = "load_folder"
        /\ file_manager.results_file = PyStr(p)

ExpectedHeaderLine ==
    <<"=", "I", "D", " ", " ", " ", " ", " ", " ", " ", " ", " ", " ", " ", " ", " ",
      "I", "m", "a", "g", "e", " ", "N", "a", "m", "e", " ", " ", " ", " ", " ", "R",
      "a", "d", "i", "a", "l", " ", " ", " ", " ", " ", " ", " ", " ", " ", "X", "-",
      "A", "x", "i", "s", " ", " ", " ", " ", " ", " ", " ", " ", " ", "Y", "-", "A",
      "x", "i", "s", " ", " ", " ", " ", " ", " ", " ", " ", " ", "\n">>

ExpectedSeparatorLine == <<"=", "=", "=", "\n">>

\* C3: a results file starts with the header line and the separator line, and
\* neither line occurs anywhere after them, however many writes were made.
C3_PreambleOnce ==
    \A p \in ResultPaths :
        fs[p].exists
        => /\ Len(fs[p].lines) >= 2
           /\ fs[p].lines[1] = ExpectedHeaderLine
           /\ fs[p].lines[2] = ExpectedSeparatorLine
           /\ \A i \in 3..Len(fs[p].lines) :
                  fs[p].lines[i] \notin {ExpectedHeaderLine, ExpectedSeparatorLine}

\* two calls of write_results have written to the same file
C3_Witness ==
    \E p \in ResultPaths :
        /\ last.op = "write_results"
        /\ Len(written[p]) > Len(last.imgs)
        /\ Len(fs[p].lines) = 2 + Len(written[p])

\* the whitespace-separated tokens of the line of one image
ExpectedTokens(img) ==
    <<IMAGE_ID, NatStr(img.index)>> \o SplitWS(IMAGE_NAME) \o SplitWS(img.name)
    \o <<RADIAL, Str(img.radial), X_AXIS, Str(img.xaxis), Y_AXIS, Str(img.yaxis)>>

\* C4: after the preamble a results file holds one line per image passed to
\* write_results, in the order of the calls and, within a call, of the list; the
\* i-th line carries the index, name, radial, x-axis and y-axis of the i-th image.
C4_AppendOrder ==
    \A p \in ResultPaths :
        fs[p].exists
        => /\ Len(fs[p].lines) = 2 + Len(written[p])
           /\ \A i \in 1..Len(written[p]) :
                  SplitWS(fs[p].lines[2 + i]) = ExpectedTokens(written[p][i])

\* a call has just appended a batch of two images with different fields
C4_Witness ==
    /\ last.op = "write_results"
    /\ Len(last.imgs) = 2
    /\ last.imgs[1].radial # last.imgs[2].radial
    /\ \E p \in ResultPaths : fs[p].exists /\ written[p] = last.imgs

IsNoImage(img) == img.radial = PyStr(NO_IMAGE)
IsOutOfBounds(img) == img.radial = PyInt(OUT_OF_BOUNDS)
AllThree(row, P(_)) == P(row[3]) /\ P(row[4]) /\ P(row[5])
IsNoImageCell(c) == c = PyStr(NO_IMAGE)
IsOutOfBoundsCell(c) == FloatEqInt(c, OUT_OF_BOUNDS)

\* C5: a trial recorded by no_image or by invalid_trial is read back with its
\* sentinel in all three measurement fields, and the row of a measured trial
\* is neither all 'N/A' nor all 99999.
C5_SentinelRows ==
    \A f \in Folders :
        (LoadedFrom(f) /\ AllRecorded(written[ResultsFileOf(f)]))
        => /\ data.t = "DataFrame"
           /\ Len(data.rows) = Len(written[ResultsFileOf(f)])
           /\ \A i \in 1..Len(data.rows) :
                  LET img == written[ResultsFileOf(f)][i]
                      row == data.rows[i]
                  IN  /\ IsNoImage(img) <=> AllThree(row, IsNoImageCell)
                      /\ IsOutOfBounds(img) <=> AllThree(row, IsOutOfBoundsCell)

NotFoundWords == <<"n", "o", "t", " ", "f", "o", "u", "n", "d">>

\* C10: load_folder on a folder without Results/Results_File.txt shows a
\* 'not found' message, lets no exception escape and leaves the loaded data and
\* the table as they were.
C10_MissingFile ==
    [][(/\ last'.op = "load_folder"
        /\ last'.folder # <<>>
        /\ ~fs[ResultsFileOf(last'.folder)].exists)
       => (/\ Contains(data_label', NotFoundWords)
           /\ Contains(data_label', RESULTS_FILENAME)
           /\ escaped' = ""
           /\ data' = data
           /\ data_table' = data_table)]_vars

\* data was loaded, then a folder without a results file was chosen
C10_Witness ==
    /\ last.op = "load_folder"
    /\ last.folder \in Folders
    /\ ~fs[ResultsFileOf(last.folder)].exists
    /\ data.t = "DataFrame"
    /\ Len(data_table) > 0
    /\ Contains(data_label, NotFoundWords)

(***************************************************************************)
(* Properties of the review of files found on disk (ReviewSpec)            *)
(***************************************************************************)
\* the step is a load of the results file of folder f, which exists
LoadStep(f) ==
    /\ last'.op = "load_folder"
    /\ last'.folder = f
    /\ fs[ResultsFileOf(f)].exists

\* the data lines of the results file of folder f
KeptLines(f) == SelectLines(fs[ResultsFileOf(f)].lines)

LacksLabel(line) ==
    \E h \in {IMAGE_ID, IMAGE_NAME, RADIAL, X_AXIS, Y_AXIS} : ~Contains(line, h)

LacksMeasurementLabel(line) ==
    \E h \in {RADIAL, X_AXIS, Y_AXIS} : ~Contains(line, h)

MalformedWords == <<"m", "a", "l", "f", "o", "r", "m", "e", "d">>

\* the load reported an error and changed nothing else
AbortedCleanly ==
    /\ escaped' = ""
    /\ data' = data
    /\ data_table' = data_table
    /\ Contains(data_label', MalformedWords)

\* C7: if a data line of the loaded file lacks one of the labels ID, Image Name,
\* Radial, X-Axis, Y-Axis, the load leaves the loaded data and the table as they
\* were and only reports an error.
C7_MalformedAborts ==
    [][\A f \in Folders :
          (LoadStep(f) /\ \E i \in 1..Len(KeptLines(f)) : LacksLabel(KeptLines(f)[i]))
          => AbortedCleanly]_vars

ExpectedMalformedText ==
    <<"E", "n", "c", "o", "u", "n", "t", "e", "r", "e", "d", " ", "e", "r", "r", "o",
      "r", ":", " ", "'", "l", "i", "s", "t", " ", "i", "n", "d", "e", "x", " ", "o",
      "u", "t", " ", "o", "f", " ", "r", "a", "n", "g", "e", "'", ".", " ", "R", "e",
      "s", "u", "l", "t", "s", " ", "f", "i", "l", "e", " ", "m", "a", "y", " ", "b",
      "e", " ", "m", "a", "l", "f", "o", "r", "m", "e", "d", ".">>

\* the data lines on which format_line raises
Failing(kept) ==
    {i \in 1..Len(kept) : format_line(kept[i]).kind \in {"IndexError", "ValueError"}}

\* the first line on which format_line raises starts with ID and lacks a
\* measurement label
StopsAtUnlabelled(kept, failing) ==
    /\ failing # {}
    /\ StartsWith(kept[MinOf(failing)], IMAGE_ID)
    /\ LacksMeasurementLabel(kept[MinOf(failing)])

PartlyNumericTokens(radial, x_axis, y_axis) ==
    /\ radial.ok /\ x_axis.ok /\ y_axis.ok
    /\ {ParseFloat(t).ok : t \in {radial.tok, x_axis.tok, y_axis.tok}} = {TRUE, FALSE}

PartlyNumeric(line) ==
    /\ StartsWith(line, IMAGE_ID)
    /\ PartlyNumericTokens(TokenAfter(line, RADIAL), TokenAfter(line, X_AXIS),
                           TokenAfter(line, Y_AXIS))

\* C9: a data line of which some but not all of the three measurement tokens are
\* numeric makes the load report an error, with no exception escaping and the
\* loaded data and table as they were.
C9_PartlyNumericAborts ==
    [][\A f \in Folders :
          (LoadStep(f) /\ \E i \in 1..Len(KeptLines(f)) : PartlyNumeric(KeptLines(f)[i]))
          => AbortedCleanly]_vars

(***************************************************************************)
(* Properties of the trial session (SessionSpec)                           *)
(***************************************************************************)
IsNumericField(v) == v.t = "str" /\ v.s # NO_IMAGE /\ ParseFloat(v.s).ok

\* the three fields are all 'N/A', all 99999 or all numeric
SameKind(img) ==
    \/ \A v \in {img.radial, img.xaxis, img.yaxis} : v = PyStr(NO_IMAGE)
    \/ \A v \in {img.radial, img.xaxis, img.yaxis} : v = PyInt(OUT_OF_BOUNDS)
    \/ \A v \in {img.radial, img.xaxis, img.yaxis} : IsNumericField(v)

Unset(img) == \A v \in {img.radial, img.xaxis, img.yaxis} : v = PyNone

\* C6: the three fields of a trial are all 'N/A', all 99999 or all numeric (or
\* all still unset while the trial is not recorded), and no record written to
\* the results file mixes kinds or carries an unset field.
C6_AllOrNothing ==
    /\ \A i \in 1..Len(images) : SameKind(images[i]) \/ Unset(images[i])
    /\ \A p \in ResultPaths : \A i \in 1..Len(written[p]) : SameKind(written[p][i])

(***************************************************************************)
(* Properties of the measurement arithmetic (CalcSpec)                     *)
(***************************************************************************)
\* the square of the pixel distance between a and b
PixelSq(a, b) == (b[1] - a[1]) * (b[1] - a[1]) + (b[2] - a[2]) * (b[2] - a[2])

\* v is d divided by the square root of sq: v^2 * sq = d^2, with the sign of d
IsQuotient(v, d, sq) ==
    /\ v.n2 * sq * d.d2 = d.n2 * v.d2
    /\ v.neg = d.neg

\* C11: calculate_scaling_factor(d, A, B) raises the ValueError of a degenerate
\* calibration exactly when A = B, and otherwise returns d divided by the pixel
\* distance between A and B.
C11_ScalingFactor ==
    calc.op = "calculate_scaling_factor"
    => /\ (calc.out.raised = "ValueError") <=> (calc.a = calc.b)
       /\ calc.a # calc.b
          => /\ calc.out.raised = ""
             /\ IsQuotient(calc.out.value, calc.d, PixelSq(calc.a, calc.b))

\* the function was called with one point given twice
C11_Witness ==
    /\ calc.op = "calculate_scaling_factor"
    /\ calc.a = calc.b
    /\ calc.d = FromInt(50)
    /\ calc.out.raised = "ValueError"

\* a equals b as numbers (-0.0 equals 0.0)
NumSame(a, b) ==
    /\ a.n2 * b.d2 = b.n2 * a.d2
    /\ a.n2 = 0 \/ a.neg = b.neg

\* the pair of floats out is the pair of integers k
IsIntPair(out, k) == NumSame(out[1], FromInt(k[1])) /\ NumSame(out[2], FromInt(k[2]))

\* the table of the four conventions, on integer deltas
TableDelta(o, dx, dy) ==
    CASE o = 0 -> <<-dx, dy>>
      [] o = 1 -> <<-dy, -dx>>
      [] o = 2 -> <<dx, -dy>>
      [] o = 3 -> <<dy, dx>>

\* C14: the raw delta (dx, dy) is remapped to (-dx, dy) for orientation 0,
\* (-dy, -dx) for 1, (dx, -dy) for 2 and (dy, dx) for 3.
C14_RemapTable ==
    (calc.op = "remap" /\ calc.o \in 0..3)
        => IsIntPair(calc.out, TableDelta(calc.o, calc.dx, calc.dy))

C14_Witness ==
    /\ calc.op = "remap"
    /\ calc.o = 1
    /\ calc.dx = 1
    /\ calc.dy = 2
    /\ calc.out = <<FromInt(-2), FromInt(-1)>>

\* the recorded text txt is the number with sign neg and square n2 / d2, rounded
\* to two decimals: f is float(txt)
RoundedTo(f, neg, n2, d2) ==
    /\ f.ok
    /\ f.val.scale = 2
    /\ f.val.num = 0 \/ (2 * f.val.num - 1) * (2 * f.val.num - 1) * d2 <= 40000 * n2
    /\ 40000 * n2 <= (2 * f.val.num + 1) * (2 * f.val.num + 1) * d2
    /\ n2 = 0 \/ f.val.neg = neg

IsRounded(field, neg, n2, d2) ==
    field.t = "str" /\ RoundedTo(ParseFloat(field.s), neg, n2, d2)

\* C15: with an orientation code outside 0..3 a measurement records what
\* orientation 0 records, (-dx * scale, dy * scale).
C15_InvalidFallsBack ==
    (calc.op = "trial" /\ calc.o \notin 0..3)
        => /\ IsRounded(calc.out.xaxis, (calc.p[1] - calc.t[1] < 0) # calc.s.neg,
                        (calc.p[1] - calc.t[1]) * (calc.p[1] - calc.t[1]) * calc.s.n2,
                        calc.s.d2)
           /\ IsRounded(calc.out.yaxis, (calc.t[2] - calc.p[2] < 0) # calc.s.neg,
                        (calc.t[2] - calc.p[2]) * (calc.t[2] - calc.p[2]) * calc.s.n2,
                        calc.s.d2)

\* the field is k * s rounded to two decimals
IsScaled(field, k, s) == IsRounded(field, (k < 0) # s.neg, k * k * s.n2, s.d2)

TrialTable(c) == TableDelta(c.o, c.t[1] - c.p[1], c.t[2] - c.p[2])

\* C17: a trial records radial = s * the pixel distance of target and implement,
\* x and y = the remapped delta * s, each rounded to two decimals; target
\* (100,100), implement (150,100), s = 0.5, orientation 0 give 25.00, 25.00, 0.00.
C17_TrialMeasurement ==
    (calc.op = "trial" /\ calc.o \in 0..3)
        => /\ IsRounded(calc.out.radial, calc.s.neg,
                        PixelSq(calc.t, calc.p) * calc.s.n2, calc.s.d2)
           /\ IsScaled(calc.out.xaxis, TrialTable(calc)[1], calc.s)
           /\ IsScaled(calc.out.yaxis, TrialTable(calc)[2], calc.s)
           /\ (calc.t = <<100, 100>> /\ calc.p = <<150, 100>> /\ calc.s = HalfScale
               /\ calc.o = 0)
              => /\ calc.out.radial = PyStr(<<"2", "5", ".", "0", "0">>)
                 /\ calc.out.xaxis = PyStr(<<"2", "5", ".", "0", "0">>)
                 /\ calc.out.yaxis = PyStr(<<"0", ".", "0", "0">>)

C17_Witness ==
    /\ calc.op = "trial"
    /\ calc.t = <<100, 100>>
    /\ calc.p = <<150, 100>>
    /\ calc.s = HalfScale
    /\ calc.o = 0
    /\ calc.out.radial = PyStr(<<"2", "5", ".", "0", "0">>)

Deltas == (-MaxDelta..MaxDelta) \X (-MaxDelta..MaxDelta)

RemapOf(o, d) == AxisDelta(o, FromInt(d[1]), FromInt(d[2]))

SamePair(u, v) == NumSame(u[1], v[1]) /\ NumSame(u[2], v[2])

\* C18: each of the four remaps is a bijection on the deltas: only the delta
\* remapped gives its image, and every delta is the image of one; remap 0
\* applied twice and remap 2 applied twice give back the delta.
C18_RemapBijection ==
    (calc.op = "remap" /\ calc.o \in 0..3)
        => /\ \A d \in Deltas :
                SamePair(RemapOf(calc.o, d), calc.out) => d = <<calc.dx, calc.dy>>
           /\ \E d \in Deltas : IsIntPair(RemapOf(calc.o, d), <<calc.dx, calc.dy>>)
           /\ calc.o \in {0, 2} => IsIntPair(calc.twice, <<calc.dx, calc.dy>>)

C18_Witness ==
    /\ calc.op = "remap"
    /\ calc.o = 2
    /\ calc.dx = 1
    /\ calc.dy = -2
    /\ calc.out = <<FromInt(1), FromInt(2)>>
    /\ calc.twice = <<FromInt(1), FromInt(-2)>>

\* C19: calculate_error(A, B, s) is s times calculate_error(A, B, 1), and
\* calculate_error(A, A, s) is 0.
C19_ErrorScales ==
    calc.op = "calculate_error"
        => /\ calc.out.n2 * calc.s.d2 * calc.unit.d2 = calc.s.n2 * calc.unit.n2 * calc.out.d2
           /\ calc.out.n2 = 0 \/ calc.out.neg = (calc.s.neg # calc.unit.neg)
           /\ calc.a = calc.b => calc.out.n2 = 0

C19_Witness ==
    /\ calc.op = "calculate_error"
    /\ calc.a = <<100, 100>>
    /\ calc.b = <<103, 104>>
    /\ calc.s = FromInt(2)
    /\ calc.unit = FromInt(5)
    /\ calc.out = FromInt(10)

(***************************************************************************)
(* Properties of the calibration page (CalibrationSpec)                    *)
(***************************************************************************)
\* C12: every scaling factor the calibration page hands to set_data is greater
\* than 0.
C12_PositiveScale ==
    scaling_factor # PyNone => FGtZero(scaling_factor)

\* the step is a second calibration click that falls on the first point
CoincidentSecondClick ==
    /\ last'.op = "cal_handle_point_clicked"
    /\ point1 # PyNone
    /\ point2 = PyNone
    /\ last'.pt = point1.v

\* C13: a second calibration click on the first point warns the user and clears
\* both points; it produces no scaling factor and no move to the edit page, and
\* a scaling factor is only ever produced while two points are set.
C13_DegenerateRecoverable ==
    [][/\ CoincidentSecondClick
          => /\ message' = SameSpotWarning
             /\ point1' = PyNone
             /\ point2' = PyNone
             /\ cal_timers' = cal_timers
             /\ scaling_factor' = scaling_factor
             /\ page' = page
             /\ escaped' = ""
       /\ Len(cal_timers') > Len(cal_timers)
          => point1 # PyNone /\ point2 # PyNone /\ point1 # point2]_vars

\* the warning was given for a click on the first point, with the distance
\* field still shown from an earlier pair of points
C13_Witness ==
    /\ last.op = "cal_handle_point_clicked"
    /\ message = SameSpotWarning
    /\ point1 = PyNone
    /\ point2 = PyNone
    /\ distance_shown
    /\ page = "idle"

(***************************************************************************)
(* Properties of a session of the edit page (SessionSpec), continued       *)
(***************************************************************************)
\* the operations of the trial loop (the timer is the delayed next_image of a
\* measurement)
TrialLoopOps ==
    {"handle_point_clicked", "timer", "no_image", "invalid_trial", "previous_image",
     "reselect_target"}

\* C16: no operation of the trial loop changes the scaling factor or the axis
\* orientation that set_data stored.
C16_ConfigImmutable ==
    [][last'.op \in TrialLoopOps
       => /\ scaling_factor' = scaling_factor
          /\ axis_orientation' = axis_orientation]_vars

\* the n lines at the end of lines are the lines of the images appended, and the
\* i-th of them carries the ID i - 1
NumberedFromZero(appended, lines, n) ==
    /\ Len(appended) = n
    /\ Len(lines) >= 2 + n
    /\ \A i \in 1..n :
           /\ appended[i].index = i - 1
           /\ SubSeq(SplitWS(lines[Len(lines) - n + i]), 1, 2) = <<IMAGE_ID, NatStr(i - 1)>>

\* C20: the data lines one write of a session appends carry the IDs 0, 1, ..,
\* n - 1 in that order, n being the number of trial images of the session.
C20_IdsFromZero ==
    [][\A p \in ResultPaths :
           written'[p] # written[p]
           => /\ num_images = Len(images)
              /\ IsPrefix(written[p], written'[p])
              /\ NumberedFromZero(SubSeq(written'[p], Len(written[p]) + 1, Len(written'[p])),
                                  fs'[p].lines, num_images)]_vars

\* a session of two trial images has ended and written its two lines
C20_Witness ==
    /\ page = "ended"
    /\ num_images = 2
    /\ \E p \in ResultPaths :
           /\ Len(written[p]) = 2
           /\ written[p][2].index = 1
           /\ SplitWS(fs[p].lines[4])[2] = <<"1">>

\* C21: write_results is invoked once in a session, when the last image has been
\* processed: no results are written once the session has ended, whatever the
\* user clicks or presses before or after the end.
C21_WrittenOnce ==
    [][\A p \in ResultPaths : written'[p] # written[p] => page = "editing"]_vars

\* the fields of every image below the cursor are set
BelowCursorRecorded ==
    \A i \in 1..Len(images) : i <= current_idx => ~Unset(images[i])

\* C25: no trial is skipped: every image with an index below the current index
\* has its three measurement fields set, and no record written at the end of the
\* session carries an unset field.
C25_NoTrialSkipped ==
    /\ BelowCursorRecorded
    /\ \A p \in ResultPaths : \A i \in 1..Len(written[p]) : ~Unset(written[p][i])

\* the operations that read images[current_idx] themselves
CursorReaders == {"handle_point_clicked", "no_image", "invalid_trial"}

\* C26: 0 <= current_idx <= the number of images, and no operation reads
\* images[current_idx] out of the list (an IndexError of the read).
C26_CursorInRange ==
    /\ current_idx >= 0
    /\ current_idx <= Len(images)
    /\ last.op \in CursorReaders => escaped # "IndexError"

\* imgs2 differs from imgs at most in the three measurement fields of image k
OnlyFieldsOf(imgs, imgs2, k) ==
    /\ Len(imgs2) = Len(imgs)
    /\ \A i \in 1..Len(imgs) :
           /\ i # k => imgs2[i] = imgs[i]
           /\ imgs2[i].index = imgs[i].index
           /\ imgs2[i].name = imgs[i].name

\* previous_image keeps the index at the first image, else takes one off, and
\* changes no record
PreviousStep ==
    last'.op = "previous_image"
    => /\ current_idx' = (IF current_idx = 0 THEN 0 ELSE current_idx - 1)
       /\ images' = images

\* a trial recorded (again) changes the fields of the current image only
RecordStep ==
    last'.op \in {"handle_point_clicked", "no_image", "invalid_trial"}
    => OnlyFieldsOf(images, images', current_idx + 1)

\* a write appends the list as it stands, with the latest values
WriteStep ==
    \A p \in ResultPaths :
        written'[p] # written[p] => written'[p] = written[p] \o images'

\* the file of the session holds one record for each trial image
OneRecordPerImage ==
    \A p \in ResultPaths : written'[p] # written[p] => Len(written'[p]) = Len(images')

\* C27: previous_image leaves the index at the first image and otherwise takes
\* one off it, changing no record; a trial recorded again changes only the
\* fields of that image; the file written at the end holds exactly one record
\* for each trial image, with the latest values.
C27_GoBackAndRemeasure ==
    [][PreviousStep /\ RecordStep /\ WriteStep /\ OneRecordPerImage]_vars

(***************************************************************************)
(* Properties of the calibration page (CalibrationSpec), continued         *)
(***************************************************************************)
\* k presses of the Next button, and of the Previous button, from orientation o
RECURSIVE NextPressed(_, _)
NextPressed(o, k) == IF k = 0 THEN o ELSE NextPressed(cal_next_image(o), k - 1)

RECURSIVE PreviousPressed(_, _)
PreviousPressed(o, k) ==
    IF k = 0 THEN o ELSE PreviousPressed(cal_previous_image(o), k - 1)

\* C29: with the N = 4 orientation graphics the orientation of the calibration
\* page stays in 0..N-1; Next then Previous, and Previous then Next, restore it;
\* N presses of either button return to it; the orientation handed to the edit
\* page is in {0, 1, 2, 3}.
C29_OrientationInRange ==
    /\ cal_orientation \in 0..(NumAxisImages - 1)
    /\ cal_previous_image(cal_next_image(cal_orientation)) = cal_orientation
    /\ cal_next_image(cal_previous_image(cal_orientation)) = cal_orientation
    /\ NextPressed(cal_orientation, NumAxisImages) = cal_orientation
    /\ PreviousPressed(cal_orientation, NumAxisImages) = cal_orientation
    /\ last.op = "advance_to_edit_page" => axis_orientation \in {0, 1, 2, 3}

\* the edit page was handed orientation 3, reached from 0 by Previous or by
\* three presses of Next
C29_Witness ==
    /\ page = "editing"
    /\ cal_orientation = 3
    /\ axis_orientation = 3

\* the step is a load_edit_page that passed both checks of the distance and
\* called calculate_scaling_factor
ReachesComputation ==
    /\ last'.op = "load_edit_page"
    /\ message' \notin {NotANumberWarning, NotPositiveWarning}

\* C28: load_edit_page reaches calculate_scaling_factor only while both
\* calibration points are set; after reselect_points or a new image selection
\* has cleared them, the distance field and Start do not reach it.
C28_NeedsBothPoints ==
    [][ReachesComputation => point1 # PyNone /\ point2 # PyNone]_vars

(***************************************************************************)
(* Properties of the review page (ReviewSpec), continued                   *)
(***************************************************************************)
\* the first non-space character of the line is not '='
NotRuled(line) == Strip(line) = <<>> \/ Head(Strip(line)) # "="

\* C22: a load produces no row for a line whose first non-space character is
\* '=', and exactly one row of five columns for every other line of the file,
\* in the order of the file (unless it reports the file as malformed).
C22_RowPerLine ==
    \A f \in Folders :
        (LoadedFrom(f) /\ ~Contains(data_label, MalformedWords))
        => /\ data.t = "DataFrame"
           /\ Len(data.rows) = Len(SelectSeq(fs[ResultsFileOf(f)].lines, NotRuled))
           /\ \A i \in 1..Len(data.rows) :
                  /\ Len(data.rows[i]) = 5
                  /\ data.rows[i][1] =
                         PyStr(SplitWS(SelectSeq(fs[ResultsFileOf(f)].lines, NotRuled)[i])[2])

\* the token that follows the first token equal to label
RECURSIVE TokenFollowing(_, _)
TokenFollowing(tokens, label) ==
    IF Len(tokens) < 2 THEN <<>>
    ELSE IF Head(tokens) = label THEN tokens[2]
    ELSE TokenFollowing(Tail(tokens), label)

\* the three measurement tokens of a data line
MeasurementTokens(tokens) ==
    <<TokenFollowing(tokens, RADIAL), TokenFollowing(tokens, X_AXIS),
      TokenFollowing(tokens, Y_AXIS)>>

\* the typing of a row against the tokens of its line
TypedBy(row, toks) ==
    /\ (toks = <<NO_IMAGE, NO_IMAGE, NO_IMAGE>>)
           <=> (row[3].t = "str" /\ row[4].t = "str" /\ row[5].t = "str")
    /\ (toks # <<NO_IMAGE, NO_IMAGE, NO_IMAGE>>)
           => (row[3].t = "float" /\ row[4].t = "float" /\ row[5].t = "float")
    /\ \A j \in 3..5 : row[j].t = "str" => row[j].s = NO_IMAGE

SampleRow ==
    <<PyStr(<<"0">>), PyStr(<<"a", ".", "p", "n", "g">>), PyStr(<<"N", "/", "A">>),
      PyStr(<<"N", "/", "A">>), PyStr(<<"N", "/", "A">>)>>

\* the rows loaded from the lines kept of a file that was read to its end
RowsTyped(rows, kept) ==
    /\ Len(rows) = Len(kept)
    /\ \A i \in 1..Len(rows) : TypedBy(rows[i], MeasurementTokens(SplitWS(kept[i])))

\* C23: the measurement fields of a row are strings exactly when the three
\* measurement tokens of its line are 'N/A'; in every other line that loads they
\* are three floats; the line 'ID 0 Image Name a.png Radial N/A X-Axis N/A
\* Y-Axis N/A' gives the row ('0', 'a.png', 'N/A', 'N/A', 'N/A').
C23_TypingRule ==
    \A f \in Folders :
        LET path == ResultsFileOf(f)
        IN  /\ (LoadedFrom(f) /\ data_label = LoadedPrefix \o path)
               => /\ data.t = "DataFrame"
                  /\ RowsTyped(data.rows, SelectSeq(fs[path].lines, NotRuled))
            /\ (LoadedFrom(f) /\ fs[path].lines = <<NoImageSampleLine>>)
               => /\ escaped = ""
                  /\ data.t = "DataFrame"
                  /\ data.rows = <<SampleRow>>

\* the sample line was loaded
C23_Witness ==
    /\ LoadedFrom(FolderB)
    /\ fs[ResultsFileOf(FolderB)].lines = <<NoImageSampleLine>>
    /\ data.t = "DataFrame"
    /\ data.rows = <<SampleRow>>

\* C24: for every data line written, format_line gives the name between the
\* 'Image Name' label and the 'Radial' label of the record, and the radial,
\* x-axis and y-axis tokens that follow the labels of the record, also when the
\* file name holds spaces or the text of a label.
C24_NameExtraction ==
    \A p \in ResultPaths :
        \A i \in 1..Len(written[p]) :
            (fs[p].exists /\ ~Unset(written[p][i]))
            => /\ format_line(fs[p].lines[2 + i]).kind = "row"
               /\ RowMatches(written[p][i], format_line(fs[p].lines[2 + i]).row)

(***************************************************************************)
(* Properties of the measurement arithmetic (CalcSpec), continued          *)
(***************************************************************************)
\* r^2 = x^2 + y^2 for the floats r, x, y
SumOfSquares(r, x, y) == r.n2 * x.d2 * y.d2 = (x.n2 * y.d2 + y.n2 * x.d2) * r.d2

\* the trial c measured under orientation o
UnderOrientation(c, o) ==
    Unrounded(c.t, c.p[1], c.p[2], c.s,
              AxisDelta(o, FromInt(c.t[1] - c.p[1]), FromInt(c.t[2] - c.p[2])))

\* C30: for a target, an implement and a scaling factor the radial value is the
\* same under the four orientations, and before rounding its square is the sum
\* of the squares of x and y under each of them.
C30_RadialIndependent ==
    (calc.op = "trial" /\ calc.o \in 0..3)
        => /\ SumOfSquares(calc.raw.radial, calc.raw.xaxis, calc.raw.yaxis)
           /\ \A o \in 0..3 :
                  /\ UnderOrientation(calc, o).radial = calc.raw.radial
                  /\ Formatted(calc.out, UnderOrientation(calc, o)).radial = calc.out.radial
                  /\ SumOfSquares(calc.raw.radial, UnderOrientation(calc, o).xaxis,
                                  UnderOrientation(calc, o).yaxis)

C30_Witness ==
    /\ calc.op = "trial"
    /\ calc.t = <<100, 100>>
    /\ calc.p = <<103, 104>>
    /\ calc.s = FromInt(2)
    /\ calc.o = 1
    /\ calc.raw = [radial |-> FromInt(10), xaxis |-> FromInt(8), yaxis |-> FromInt(6)]

=============================================================================
